---- MODULE Spec2Model ----
(***************************************************************************)
(* Model of backend/main.py and backend/models.py: the two FastAPI         *)
(* handlers /api/v1/analyze and /api/v1/analyze-pdf, the in-memory         *)
(* SESSION_HISTORY store, the PDF text extractor and the two Gemini calls. *)
(*                                                                         *)
(* The handlers are coroutines on one event loop.  A coroutine runs        *)
(* without interruption between two awaits, so every action below is the   *)
(* code between two consecutive awaits of one handler (or between an await *)
(* and the return/raise that ends the request).  The awaits are            *)
(*     file.read()                          (main.py:245)                  *)
(*     client.aio.models.generate_content   (main.py:140 and main.py:203)  *)
(*                                                                         *)
(* Numbers that are floats in the program are fixed-point integers here:   *)
(* signal_confidence_score is in hundredths (100 is 1.0) and               *)
(* trial_frequency_percent in whole percent.  A str that the code looks    *)
(* into (the PDF text) is a sequence of one-character strings; a str the   *)
(* code only passes along is a TLA+ string.                                *)
(***************************************************************************)
EXTENDS Integers, Sequences, FiniteSets, TLC

\* ------------------------------------------------------------------ bounds
\* Requests that recorded a result or are still in flight: no request is
\* admitted beyond this many.
MaxRecorded == 6

\* Two requests overlap only while fewer than this many requests have been
\* admitted, or when exactly HistoryLimit - 1 results are recorded (so that two
\* overlapping requests can overflow a session's window); otherwise the
\* requests arrive one after the other.
MaxOverlap == 2

\* Session identifiers that requests (and the field-extraction LLM) use.
Sessions == {"s1", "s2"}

\* Coroutines the event loop runs at the same time.
Handlers == {1, 2}

\* ------------------------------------------------------- program constants
\* store_result keeps SESSION_HISTORY[session_id][-5:]
HistoryLimit == 5

\* ContradictionResponse.signal_confidence_score: ge=0.0, le=1.0 (hundredths)
ScoreMin == 0
ScoreMax == 100

\* HeatmapEntry.trial_frequency_percent: ge=0.0, le=100.0
FrequencyMin == 0
FrequencyMax == 100

\* HeatmapEntry.post_market_severity_score: ge=1, le=5
SeverityMin == 1
SeverityMax == 5

NoHistorySentinel == "No prior history for this session."

RagFallback == "No external safety data available (rag_corpus.txt not found). RAG context is empty."

RagCorpus == "FAERS/PubMed corpus text"

OnlyPdfDetail == "Only PDF files are supported."

EmptyFileDetail == "Empty file."

CouldNotReadDetail == "Could not read PDF content."

NoTextDetail == "No extractable text found in PDF (it may be a scanned image)."

ExtractionFailedDetail == "Failed to extract data from PDF."

AnalysisFailedDetail == "LLM analysis failed."

\* Starlette's answer to an exception that is not an HTTPException.
UnhandledDetail == "Internal Server Error"

VARIABLES
    SESSION_HISTORY,  \* dict[str, list[dict]]: session_id -> stored dicts
    task,             \* per handler coroutine: where it is suspended, its locals
    response,         \* the response of the request that just ended, until it is sent
    recorded,         \* history variable: per key, every dict store_result was given
    completed         \* history variable: per session_id of the request, every
                      \* result a handler returned, in the order of the returns

vars == <<SESSION_HISTORY, task, response, recorded, completed>>

\* ---------------------------------------------------------------- helpers
Range(s) == {s[i] : i \in 1..Len(s)}

\* Python's list[-n:]
LastN(list, n) ==
    IF Len(list) <= n THEN list ELSE SubSeq(list, Len(list) - n + 1, Len(list))

\* ------------------------------------------------- models.py: the schemas
HeatmapEntryFields ==
    {"adverse_event", "trial_frequency_percent",
     "post_market_severity_score", "contradiction_level"}

ContradictionResponseFields ==
    {"contradiction_detected", "signal_confidence_score",
     "contradiction_reasoning", "safety_contradiction_heatmap",
     "regulatory_reporting_draft"}

ContradictionRequestFields == {"trial_claim", "case_report", "session_id"}

\* HeatmapEntry validation of one JSON object: required fields and ranges.
HeatmapEntry_valid(obj) ==
    /\ HeatmapEntryFields \subseteq DOMAIN obj
    /\ obj.trial_frequency_percent >= FrequencyMin
    /\ obj.trial_frequency_percent <= FrequencyMax
    /\ obj.post_market_severity_score >= SeverityMin
    /\ obj.post_market_severity_score <= SeverityMax

\* The HeatmapEntry instance built from a valid JSON object.
HeatmapEntry(obj) ==
    [cls |-> "HeatmapEntry",
     adverse_event |-> obj.adverse_event,
     trial_frequency_percent |-> obj.trial_frequency_percent,
     post_market_severity_score |-> obj.post_market_severity_score,
     contradiction_level |-> obj.contradiction_level]

ContradictionResponse_valid(obj) ==
    /\ ContradictionResponseFields \subseteq DOMAIN obj
    /\ obj.signal_confidence_score >= ScoreMin
    /\ obj.signal_confidence_score <= ScoreMax
    /\ \A i \in 1..Len(obj.safety_contradiction_heatmap) :
           HeatmapEntry_valid(obj.safety_contradiction_heatmap[i])

\* The ContradictionResponse instance built from a valid JSON object.
ContradictionResponse(obj) ==
    [cls |-> "ContradictionResponse",
     contradiction_detected |-> obj.contradiction_detected,
     signal_confidence_score |-> obj.signal_confidence_score,
     contradiction_reasoning |-> obj.contradiction_reasoning,
     safety_contradiction_heatmap |->
         [i \in 1..Len(obj.safety_contradiction_heatmap) |->
              HeatmapEntry(obj.safety_contradiction_heatmap[i])],
     regulatory_reporting_draft |-> obj.regulatory_reporting_draft]

ContradictionRequest_valid(obj) == ContradictionRequestFields \subseteq DOMAIN obj

ContradictionRequest(obj) ==
    [cls |-> "ContradictionRequest",
     trial_claim |-> obj.trial_claim,
     case_report |-> obj.case_report,
     session_id |-> obj.session_id]

\* BaseModel.model_dump(): the instance as a plain dict, nested models too.
model_dump(result) ==
    [contradiction_detected |-> result.contradiction_detected,
     signal_confidence_score |-> result.signal_confidence_score,
     contradiction_reasoning |-> result.contradiction_reasoning,
     safety_contradiction_heatmap |->
         [i \in 1..Len(result.safety_contradiction_heatmap) |->
              LET e == result.safety_contradiction_heatmap[i]
              IN  [adverse_event |-> e.adverse_event,
                   trial_frequency_percent |-> e.trial_frequency_percent,
                   post_market_severity_score |-> e.post_market_severity_score,
                   contradiction_level |-> e.contradiction_level]],
     regulatory_reporting_draft |-> result.regulatory_reporting_draft]

\* ------------------------------------------------ the session history store
\* SESSION_HISTORY.get(session_id, "No prior history for this session.")
SESSION_HISTORY_get(H, session_id) ==
    IF session_id \in DOMAIN H
    THEN [found |-> TRUE, list |-> H[session_id]]
    ELSE [found |-> FALSE, text |-> NoHistorySentinel]

\* Mutant of store_result: a result equal to the last stored one is not
\* appended again.
store_result_dedup(H, session_id, result) ==
    LET old == IF session_id \in DOMAIN H THEN H[session_id] ELSE <<>>
        new == IF old # <<>> /\ old[Len(old)] = model_dump(result)
               THEN old
               ELSE Append(old, model_dump(result))
    IN  [k \in DOMAIN H \cup {session_id} |->
             IF k = session_id THEN LastN(new, HistoryLimit) ELSE H[k]]

\* Mutant of store_result: insert(0, ...) instead of append.
store_result_prepend(H, session_id, result) ==
    LET old == IF session_id \in DOMAIN H THEN H[session_id] ELSE <<>>
    IN  [k \in DOMAIN H \cup {session_id} |->
             IF k = session_id
             THEN LastN(<<model_dump(result)>> \o old, HistoryLimit)
             ELSE H[k]]

\* store_result: create the key if absent, append the dump, keep the last 5.
store_result(H, session_id, result) ==
    LET H1 == IF session_id \notin DOMAIN H
              THEN [k \in DOMAIN H \cup {session_id} |->
                        IF k = session_id THEN <<>> ELSE H[k]]
              ELSE H
        H2 == [H1 EXCEPT ![session_id] = Append(@, model_dump(result))]
    IN  [H2 EXCEPT ![session_id] = LastN(@, HistoryLimit)]

\* ------------------------------------------------------- the reference file
\* What open(rag_path) can do: give the text, raise FileNotFoundError, or
\* raise another OSError (which get_rag_context does not catch).
FileStates == {"present", "missing", "unreadable"}

\* Mutant of get_rag_context: FileNotFoundError is not caught.
get_rag_context_uncaught(fs) ==
    IF fs = "present" THEN [raised |-> FALSE, text |-> RagCorpus]
    ELSE [raised |-> TRUE]

get_rag_context(fs) ==
    CASE fs = "present" -> [raised |-> FALSE, text |-> RagCorpus]
      [] fs = "missing" -> [raised |-> FALSE, text |-> RagFallback]
      [] OTHER          -> [raised |-> TRUE]

\* ------------------------------------------------------ PDF text extraction
Whitespace == {" ", "\n", "\t"}

RECURSIVE lstrip(_)
lstrip(s) ==
    IF s # <<>> /\ Head(s) \in Whitespace THEN lstrip(Tail(s)) ELSE s

RECURSIVE rstrip(_)
rstrip(s) ==
    IF s # <<>> /\ s[Len(s)] \in Whitespace
    THEN rstrip(SubSeq(s, 1, Len(s) - 1))
    ELSE s

\* Mutant of strip: `if not pdf_text:` without the strip.
strip_forgotten(s) == s

\* str.strip()
strip(s) == rstrip(lstrip(s))

\* "\n\n".join(pages_text)
RECURSIVE join(_)
join(pages_text) ==
    IF pages_text = <<>> THEN <<>>
    ELSE IF Len(pages_text) = 1 THEN pages_text[1]
    ELSE pages_text[1] \o <<"\n", "\n">> \o join(Tail(pages_text))

\* page.extract_text() or ""
page_text(page) == IF page.out = "text" THEN page.chars ELSE <<>>

\* Mutant of extract_text_from_pdf_bytes: the exception is answered with 500.
extract_text_from_pdf_bytes_500(pdf_bytes) ==
    IF \/ ~pdf_bytes.parses
       \/ \E i \in 1..Len(pdf_bytes.pages) : pdf_bytes.pages[i].out = "raise"
    THEN [raised |-> TRUE, status_code |-> 500, detail |-> CouldNotReadDetail]
    ELSE [raised |-> FALSE,
          text |-> join([i \in 1..Len(pdf_bytes.pages) |->
                             page_text(pdf_bytes.pages[i])])]

\* extract_text_from_pdf_bytes: any exception of PdfReader or of a page's
\* extract_text becomes HTTPException(400, "Could not read PDF content.").
extract_text_from_pdf_bytes(pdf_bytes) ==
    IF \/ ~pdf_bytes.parses
       \/ \E i \in 1..Len(pdf_bytes.pages) : pdf_bytes.pages[i].out = "raise"
    THEN [raised |-> TRUE, status_code |-> 400, detail |-> CouldNotReadDetail]
    ELSE [raised |-> FALSE,
          text |-> join([i \in 1..Len(pdf_bytes.pages) |->
                             page_text(pdf_bytes.pages[i])])]

\* ------------------------------------------------------------ the LLM calls
\* What `await client.aio.models.generate_content(...)` followed by
\* `response.text` can give: an exception, a text that is not JSON, or a
\* JSON object.
LLMFailure == {[raised |-> TRUE], [raised |-> FALSE, parses |-> FALSE]}

LLMText(objs) == {[raised |-> FALSE, parses |-> TRUE, obj |-> o] : o \in objs}

\* ContradictionResponse.model_validate_json(response.text)
ContradictionResponse_model_validate_json(llm) ==
    IF llm.parses /\ ContradictionResponse_valid(llm.obj)
    THEN [raised |-> FALSE, value |-> ContradictionResponse(llm.obj)]
    ELSE [raised |-> TRUE]

\* ContradictionRequest.model_validate_json(response.text)
ContradictionRequest_model_validate_json(llm) ==
    IF llm.parses /\ ContradictionRequest_valid(llm.obj)
    THEN [raised |-> FALSE, value |-> ContradictionRequest(llm.obj)]
    ELSE [raised |-> TRUE]

\* extract_request_from_pdf_text from the return of its await on: every
\* exception becomes HTTPException(500, "Failed to extract data from PDF.").
extract_request_from_pdf_text_return(llm) ==
    LET v == IF llm.raised THEN [raised |-> TRUE]
             ELSE ContradictionRequest_model_validate_json(llm)
    IN  IF v.raised
        THEN [raised |-> TRUE, status_code |-> 500, detail |-> ExtractionFailedDetail]
        ELSE v

\* analyze_with_gemini from the return of its await on: every exception
\* becomes HTTPException(500, "LLM analysis failed.").
analyze_with_gemini_return(llm) ==
    LET v == IF llm.raised THEN [raised |-> TRUE]
             ELSE ContradictionResponse_model_validate_json(llm)
    IN  IF v.raised
        THEN [raised |-> TRUE, status_code |-> 500, detail |-> AnalysisFailedDetail]
        ELSE v

\* ------------------------------------------------------------------- inputs
EntryHigh ==
    [adverse_event |-> "Hepatotoxicity", trial_frequency_percent |-> 1,
     post_market_severity_score |-> 5, contradiction_level |-> "High"]

EntrySeverityOutOfRange ==
    [adverse_event |-> "Rash", trial_frequency_percent |-> 2,
     post_market_severity_score |-> 6, contradiction_level |-> "Low"]

ObjYes ==
    [contradiction_detected |-> "Yes", signal_confidence_score |-> 90,
     contradiction_reasoning |-> "label omits the event",
     safety_contradiction_heatmap |-> <<EntryHigh>>,
     regulatory_reporting_draft |-> "draft"]

ObjNo ==
    [contradiction_detected |-> "No", signal_confidence_score |-> 0,
     contradiction_reasoning |-> "consistent",
     safety_contradiction_heatmap |-> <<>>,
     regulatory_reporting_draft |-> "none"]

ObjScoreOutOfRange == [ObjYes EXCEPT !.signal_confidence_score = 101]

ObjEntryOutOfRange ==
    [ObjYes EXCEPT !.safety_contradiction_heatmap = <<EntrySeverityOutOfRange>>]

ObjMissingField ==
    [contradiction_detected |-> "Yes", signal_confidence_score |-> 90,
     contradiction_reasoning |-> "label omits the event",
     safety_contradiction_heatmap |-> <<EntryHigh>>]

AnalysisOutcomes ==
    LLMFailure \cup
    LLMText({ObjYes, ObjNo, ObjScoreOutOfRange, ObjEntryOutOfRange, ObjMissingField})

RequestObj(session_id) ==
    [trial_claim |-> "no serious adverse events",
     case_report |-> "patient developed liver failure",
     session_id |-> session_id]

ObjNoSession ==
    [trial_claim |-> "no serious adverse events",
     case_report |-> "patient developed liver failure"]

ExtractionOutcomes ==
    LLMFailure \cup LLMText({RequestObj(s) : s \in Sessions} \cup {ObjNoSession})

\* Bodies of POST /api/v1/analyze that FastAPI hands to the handler.
Requests == {ContradictionRequest(RequestObj(s)) : s \in Sessions}

TextPage == [out |-> "text", chars |-> <<"T">>]

BlankPage == [out |-> "text", chars |-> <<" ">>]

ScannedPage == [out |-> "none", chars |-> <<>>]

BrokenPage == [out |-> "raise", chars |-> <<>>]

Pdf(pages) == [empty |-> FALSE, parses |-> TRUE, pages |-> pages]

EmptyBytes == [empty |-> TRUE, parses |-> FALSE, pages |-> <<>>]

GarbledBytes == [empty |-> FALSE, parses |-> FALSE, pages |-> <<>>]

PdfBytes ==
    {EmptyBytes, GarbledBytes, Pdf(<<>>), Pdf(<<ScannedPage>>),
     Pdf(<<BlankPage, ScannedPage>>), Pdf(<<TextPage>>),
     Pdf(<<TextPage, ScannedPage>>), Pdf(<<TextPage, BrokenPage>>)}

\* UploadFile: the content type the client declared and the payload.
Uploads ==
    {[content_type |-> "application/pdf", bytes |-> b] : b \in PdfBytes}
    \cup {[content_type |-> "text/plain", bytes |-> b] :
              b \in {EmptyBytes, Pdf(<<TextPage>>)}}
    \cup {[content_type |-> "none", bytes |-> Pdf(<<TextPage>>)]}

\* -------------------------------------------------------------- the state
Idle == [pc |-> "idle"]

NoReply == [kind |-> "none", status_code |-> 0, detail |-> "", stages |-> <<>>]

Init ==
    /\ SESSION_HISTORY = [k \in {} |-> <<>>]
    /\ task = [h \in Handlers |-> Idle]
    /\ response = NoReply
    /\ recorded = [s \in Sessions |-> <<>>]
    /\ completed = [s \in Sessions |-> <<>>]

RECURSIVE TotalLen(_, _)
TotalLen(f, S) ==
    IF S = {} THEN 0
    ELSE LET s == CHOOSE x \in S : TRUE IN Len(f[s]) + TotalLen(f, S \ {s})

InFlight == Cardinality({h \in Handlers : task[h].pc # "idle"})

\* The arrival pattern of the requests (a bound of the model, not of the code).
Admit ==
    LET n == TotalLen(recorded, Sessions)
    IN  /\ n + InFlight < MaxRecorded
        /\ \/ InFlight = 0
           \/ n + InFlight < MaxOverlap
           \/ n = HistoryLimit - 1

\* No response is waiting to be sent.
Quiet == response = NoReply

\* The error response of a request that ended with its locals `frame`.
Reply(frame, status_code, detail) ==
    [pc |-> "idle", status_code |-> status_code, detail |-> detail] @@ frame

\* The 200 response: the handler's return value.
ReplyOK(frame, result) ==
    [pc |-> "idle", status_code |-> 200, detail |-> "", result |-> result] @@ frame

\* ------------------------------------------------------------ the handlers
\* analyze_with_gemini up to its await: read the reference file, read the
\* session's history, build the prompt, issue the LLM call.  An exception of
\* get_rag_context is outside the try block and ends the request.
analyze_with_gemini_call(h, frame, request, fs) ==
    LET rag == get_rag_context(fs)
        locals == [request |-> request, fs |-> fs,
                   history_key |-> request.session_id] @@ frame
    IN  IF rag.raised
        THEN /\ task' = [task EXCEPT ![h] = Idle]
             /\ response' = Reply(locals, 500, UnhandledDetail)
        ELSE /\ task' = [task EXCEPT ![h] =
                    [pc |-> "analyze",
                     rag_context |-> rag.text,
                     session_history |->
                         SESSION_HISTORY_get(SESSION_HISTORY, request.session_id),
                     stages |-> Append(frame.stages, "analysis_call")] @@ locals]
             /\ UNCHANGED response

\* Mutant of analysis_resume: the session's key is created before the LLM
\* output is validated, so a failed request leaves an empty list behind.
analysis_resume_eager_key(h, llm, session_id) ==
    LET frame == [llm |-> llm] @@ task[h]
        r == analyze_with_gemini_return(llm)
        H0 == [k \in DOMAIN SESSION_HISTORY \cup {session_id} |->
                   IF k \in DOMAIN SESSION_HISTORY THEN SESSION_HISTORY[k] ELSE <<>>]
    IN  /\ task' = [task EXCEPT ![h] = Idle]
        /\ IF r.raised
           THEN /\ response' = Reply(frame, r.status_code, r.detail)
                /\ SESSION_HISTORY' = H0
                /\ UNCHANGED <<recorded, completed>>
           ELSE /\ SESSION_HISTORY' = store_result(H0, session_id, r.value)
                /\ recorded' = [recorded EXCEPT
                       ![session_id] = Append(@, model_dump(r.value))]
                /\ completed' = [completed EXCEPT
                       ![frame.request.session_id] = Append(@, r.value)]
                /\ response' = ReplyOK([stages |-> Append(frame.stages, "record")]
                                           @@ frame, r.value)

\* Mutant of analysis_resume: the result is appended to the list the request
\* read before its await and that list is written back (a lost update).
analysis_resume_stale(h, llm, session_id) ==
    LET frame == [llm |-> llm] @@ task[h]
        r == analyze_with_gemini_return(llm)
        H0 == [k \in DOMAIN SESSION_HISTORY \cup {session_id} |->
                   IF k = session_id
                   THEN (IF frame.session_history.found
                         THEN frame.session_history.list ELSE <<>>)
                   ELSE SESSION_HISTORY[k]]
    IN  /\ task' = [task EXCEPT ![h] = Idle]
        /\ IF r.raised
           THEN /\ response' = Reply(frame, r.status_code, r.detail)
                /\ UNCHANGED <<SESSION_HISTORY, recorded, completed>>
           ELSE /\ SESSION_HISTORY' = store_result(H0, session_id, r.value)
                /\ recorded' = [recorded EXCEPT
                       ![session_id] = Append(@, model_dump(r.value))]
                /\ completed' = [completed EXCEPT
                       ![frame.request.session_id] = Append(@, r.value)]
                /\ response' = ReplyOK([stages |-> Append(frame.stages, "record")]
                                           @@ frame, r.value)

\* From the return of analyze_with_gemini's await to the handler's return:
\* validate the LLM output, store_result(session_id, analysis_result), return
\* analysis_result.  There is no await in between.
analysis_resume(h, llm, session_id) ==
    LET frame == [llm |-> llm] @@ task[h]
        r == analyze_with_gemini_return(llm)
    IN  /\ task' = [task EXCEPT ![h] = Idle]
        /\ IF r.raised
           THEN /\ response' = Reply(frame, r.status_code, r.detail)
                /\ UNCHANGED <<SESSION_HISTORY, recorded, completed>>
           ELSE /\ SESSION_HISTORY' =
                       store_result(SESSION_HISTORY, session_id, r.value)
                /\ recorded' = [recorded EXCEPT
                       ![session_id] = Append(@, model_dump(r.value))]
                /\ completed' = [completed EXCEPT
                       ![frame.request.session_id] = Append(@, r.value)]
                /\ response' = ReplyOK([stages |-> Append(frame.stages, "record")]
                                           @@ frame, r.value)

\* POST /api/v1/analyze: the handler up to the await of the LLM call.
analyze_contradiction(h, request, fs) ==
    /\ Quiet
    /\ task[h].pc = "idle"
    /\ Admit
    /\ analyze_with_gemini_call(h, [kind |-> "analyze", stages |-> <<>>],
                                request, fs)
    /\ UNCHANGED <<SESSION_HISTORY, recorded, completed>>

\* Any session_id but the given one.
OtherSession(session_id) == CHOOSE k \in Sessions : k # session_id

\* Mutant of analyze_contradiction_resume: the result is stored under a key
\* that is not the request's session_id.
analyze_contradiction_resume_other_key(h, llm) ==
    /\ Quiet
    /\ task[h].pc = "analyze"
    /\ task[h].kind = "analyze"
    /\ analysis_resume(h, llm, OtherSession(task[h].request.session_id))

\* POST /api/v1/analyze: the LLM call returns.
analyze_contradiction_resume(h, llm) ==
    /\ Quiet
    /\ task[h].pc = "analyze"
    /\ task[h].kind = "analyze"
    /\ analysis_resume(h, llm, task[h].request.session_id)

\* Mutant of analyze_contradiction_from_pdf: the content type is not checked.
analyze_contradiction_from_pdf_unchecked(h, file) ==
    /\ Quiet
    /\ task[h].pc = "idle"
    /\ Admit
    /\ task' = [task EXCEPT ![h] =
           [pc |-> "read", kind |-> "pdf", file |-> file,
            stages |-> <<"read_upload">>]]
    /\ UNCHANGED <<SESSION_HISTORY, response, recorded, completed>>

\* POST /api/v1/analyze-pdf: the content-type check, then await file.read().
analyze_contradiction_from_pdf(h, file) ==
    /\ Quiet
    /\ task[h].pc = "idle"
    /\ Admit
    /\ LET frame == [kind |-> "pdf", file |-> file, stages |-> <<>>]
       IN  IF file.content_type # "application/pdf"
           THEN /\ response' = Reply(frame, 400, OnlyPdfDetail)
                /\ UNCHANGED task
           ELSE /\ task' = [task EXCEPT ![h] =
                       [pc |-> "read", stages |-> <<"read_upload">>] @@ frame]
                /\ UNCHANGED response
    /\ UNCHANGED <<SESSION_HISTORY, recorded, completed>>

\* POST /api/v1/analyze-pdf: file.read() returns; the empty check, the text
\* extraction, the no-text check, then the await of the field-extraction call.
analyze_contradiction_from_pdf_read(h) ==
    /\ Quiet
    /\ task[h].pc = "read"
    /\ LET pdf_bytes == task[h].file.bytes
           extracting == [stages |-> Append(task[h].stages, "extract_text")]
                             @@ task[h]
           ex == extract_text_from_pdf_bytes(pdf_bytes)
       IN  IF pdf_bytes.empty
           THEN /\ response' = Reply(task[h], 400, EmptyFileDetail)
                /\ task' = [task EXCEPT ![h] = Idle]
           ELSE IF ex.raised
           THEN /\ response' = Reply(extracting, ex.status_code, ex.detail)
                /\ task' = [task EXCEPT ![h] = Idle]
           ELSE IF strip(ex.text) = <<>>
           THEN /\ response' = Reply([pdf_text |-> ex.text] @@ extracting,
                                 400, NoTextDetail)
                /\ task' = [task EXCEPT ![h] = Idle]
           ELSE /\ task' = [task EXCEPT ![h] =
                       [pc |-> "extract",
                        pdf_text |-> ex.text,
                        stages |-> Append(extracting.stages,
                                          "field_extraction_call")] @@ task[h]]
                /\ UNCHANGED response
    /\ UNCHANGED <<SESSION_HISTORY, recorded, completed>>

\* POST /api/v1/analyze-pdf: the field-extraction call returns; on success
\* analyze_with_gemini runs on the extracted request up to its await.
analyze_contradiction_from_pdf_extracted(h, llm, fs) ==
    /\ Quiet
    /\ task[h].pc = "extract"
    /\ LET frame == [extraction |-> llm] @@ task[h]
           r == extract_request_from_pdf_text_return(llm)
       IN  IF r.raised
           THEN /\ response' = Reply(frame, r.status_code, r.detail)
                /\ task' = [task EXCEPT ![h] = Idle]
           ELSE analyze_with_gemini_call(h, frame, r.value, fs)
    /\ UNCHANGED <<SESSION_HISTORY, recorded, completed>>

\* Mutant of analyze_contradiction_from_pdf_resume: the result is stored under
\* a key that is not the extracted session_id.
analyze_contradiction_from_pdf_resume_other_key(h, llm) ==
    /\ Quiet
    /\ task[h].pc = "analyze"
    /\ task[h].kind = "pdf"
    /\ analysis_resume(h, llm, OtherSession(task[h].request.session_id))

\* POST /api/v1/analyze-pdf: the analysis call returns.
analyze_contradiction_from_pdf_resume(h, llm) ==
    /\ Quiet
    /\ task[h].pc = "analyze"
    /\ task[h].kind = "pdf"
    /\ analysis_resume(h, llm, task[h].request.session_id)

\* FastAPI sends the response of the handler that just returned or raised.
\* The response is kept in `response` until then and the other handlers wait
\* (Quiet): sending touches no shared state, so this orders the steps without
\* removing any interleaving of the reads and writes of SESSION_HISTORY.
respond ==
    /\ response # NoReply
    /\ response' = NoReply
    /\ UNCHANGED <<SESSION_HISTORY, task, recorded, completed>>

Next ==
    \/ \E h \in Handlers, request \in Requests, fs \in FileStates :
           analyze_contradiction(h, request, fs)
    \/ \E h \in Handlers, llm \in AnalysisOutcomes :
           analyze_contradiction_resume(h, llm)
    \/ \E h \in Handlers, file \in Uploads :
           analyze_contradiction_from_pdf(h, file)
    \/ \E h \in Handlers : analyze_contradiction_from_pdf_read(h)
    \/ \E h \in Handlers, llm \in ExtractionOutcomes, fs \in FileStates :
           analyze_contradiction_from_pdf_extracted(h, llm, fs)
    \/ \E h \in Handlers, llm \in AnalysisOutcomes :
           analyze_contradiction_from_pdf_resume(h, llm)
    \/ respond

Spec == Init /\ [][Next]_vars

\* ------------------------------------------------------------------ claims
\* The list stored under session_id, [] when the key is absent.
Stored(H, session_id) == IF session_id \in DOMAIN H THEN H[session_id] ELSE <<>>

Min(a, b) == IF a <= b THEN a ELSE b

\* What an LLM outcome must be for the schema to accept it.
Conforming(llm) ==
    /\ ~llm.raised
    /\ llm.parses
    /\ ContradictionResponse_valid(llm.obj)

\* Handler h ends its request in this step, from the analysis await.
Finishes(h, kind) ==
    /\ task[h].pc = "analyze"
    /\ task[h].kind = kind
    /\ task'[h].pc = "idle"

\* C1: for every session, the stored history is the last min(n, 5) of the n
\* results recorded for it, in the order they were recorded: never more than 5
\* entries, the oldest dropped first, equal results kept as separate entries.
C1_SlidingWindow ==
    \A s \in Sessions :
        LET n == Len(recorded[s])
            m == Min(n, HistoryLimit)
            stored == Stored(SESSION_HISTORY, s)
        IN  /\ Len(stored) = m
            /\ Len(stored) <= HistoryLimit
            /\ \A i \in 1..m : stored[i] = recorded[s][n - m + i]

\* C1 witness: more than 5 results were recorded for a session and its window
\* holds two equal entries next to each other.
C1_Witness ==
    \E s \in DOMAIN SESSION_HISTORY :
        /\ Len(recorded[s]) > HistoryLimit
        /\ \E i \in 1..(Len(SESSION_HISTORY[s]) - 1) :
               SESSION_HISTORY[s][i] = SESSION_HISTORY[s][i + 1]

\* C2: a step that ends a request with an error leaves the whole history map
\* as it was, the map changes only in a step that ends a request with 200, an
\* error response never comes from a request that recorded, and every key of
\* the map belongs to a session one of whose requests succeeded.
C2_Step ==
    /\ (response' # NoReply /\ response'.status_code # 200)
           => /\ SESSION_HISTORY' = SESSION_HISTORY
              /\ "record" \notin Range(response'.stages)
    /\ SESSION_HISTORY' # SESSION_HISTORY
           => (response' # NoReply /\ response'.status_code = 200)
    /\ \A s \in DOMAIN SESSION_HISTORY' : completed'[s] # <<>>

C2_FailureLeavesHistory == [][C2_Step]_vars

\* C2 witness: the analysis of a request failed after other requests had
\* recorded, and its session has no key.
C2_Witness ==
    /\ response # NoReply
    /\ response.status_code = 500
    /\ response.detail = AnalysisFailedDetail
    /\ SESSION_HISTORY # <<>>
    /\ response.request.session_id \notin DOMAIN SESSION_HISTORY

\* C3: when the LLM answers a request of POST /api/v1/analyze with a
\* schema-conforming object R, the handler returns R (status 200) and the
\* history of the request's session_id becomes the old one with R appended as
\* its last entry (cut to the last 5); one result is recorded in that step.
C3_Step ==
    \A h \in Handlers :
        (Finishes(h, "analyze") /\ Conforming(response'.llm)) =>
            LET R == response'.llm.obj
                sid == task[h].request.session_id
                old == Stored(SESSION_HISTORY, sid)
                new == Stored(SESSION_HISTORY', sid)
            IN  /\ response'.status_code = 200
                /\ model_dump(response'.result) = R
                /\ new = LastN(Append(old, R), HistoryLimit)
                /\ new[Len(new)] = model_dump(response'.result)
                /\ Len(recorded'[sid]) = Len(recorded[sid]) + 1

C3_AnalyzeReturnsAndAppends == [][C3_Step]_vars

\* C3 witness: POST /api/v1/analyze returned 200 for a session that already
\* had a result, and the window now ends with two different entries.
C3_Witness ==
    /\ response # NoReply
    /\ response.kind = "analyze"
    /\ response.status_code = 200
    /\ LET stored == Stored(SESSION_HISTORY, response.request.session_id)
       IN  /\ Len(stored) >= 2
           /\ stored[Len(stored)] # stored[Len(stored) - 1]

\* An upload that POST /api/v1/analyze-pdf must reject before any work.
Rejected(file) == file.content_type # "application/pdf" \/ file.bytes.empty

Work == {"extract_text", "field_extraction_call", "analysis_call", "record"}

\* C4: a request of POST /api/v1/analyze-pdf whose upload is not
\* application/pdf or is empty never extracts text, never calls the LLM, never
\* records; it ends with 400 in a step that leaves the history map unchanged.
C4_Step ==
    /\ \A h \in Handlers :
           (task'[h].pc # "idle" /\ task'[h].kind = "pdf" /\ Rejected(task'[h].file))
               => Range(task'[h].stages) \cap Work = {}
    /\ (response' # NoReply /\ response'.kind = "pdf" /\ Rejected(response'.file))
           => /\ response'.status_code = 400
              /\ response'.detail \in {OnlyPdfDetail, EmptyFileDetail}
              /\ Range(response'.stages) \cap Work = {}
              /\ SESSION_HISTORY' = SESSION_HISTORY

C4_RejectBeforeWork == [][C4_Step]_vars

\* C4 witness: an empty application/pdf upload was answered 400 while the
\* history map holds results.
C4_Witness ==
    /\ response # NoReply
    /\ response.kind = "pdf"
    /\ response.file.content_type = "application/pdf"
    /\ response.file.bytes.empty
    /\ response.status_code = 400
    /\ SESSION_HISTORY # <<>>

\* The bytes are a PDF that pypdf reads to the end.
Parses(pdf_bytes) ==
    /\ pdf_bytes.parses
    /\ \A i \in 1..Len(pdf_bytes.pages) : pdf_bytes.pages[i].out # "raise"

\* No page of the PDF has a character that is not whitespace.
NoVisibleText(pdf_bytes) ==
    \A i \in 1..Len(pdf_bytes.pages) :
        pdf_bytes.pages[i].out = "text" =>
            \A j \in 1..Len(pdf_bytes.pages[i].chars) :
                pdf_bytes.pages[i].chars[j] \in Whitespace

LLMCalls == {"field_extraction_call", "analysis_call"}

\* C5: an accepted upload that parses as a PDF but has no text after trimming
\* is answered 400 "No extractable text ...", one that does not parse is
\* answered 400 "Could not read PDF content.", the two messages differ, and
\* neither request calls the LLM.
C5_NoTextIsDistinct ==
    (response # NoReply /\ response.kind = "pdf" /\ ~Rejected(response.file)) =>
        LET b == response.file.bytes
        IN  /\ (Parses(b) /\ NoVisibleText(b)) =>
                   /\ response.status_code = 400
                   /\ response.detail = NoTextDetail
                   /\ response.detail # CouldNotReadDetail
                   /\ Range(response.stages) \cap LLMCalls = {}
            /\ ~Parses(b) =>
                   /\ response.status_code = 400
                   /\ response.detail = CouldNotReadDetail
                   /\ response.detail # NoTextDetail
                   /\ Range(response.stages) \cap LLMCalls = {}

\* C5 witness: a PDF whose only text is whitespace was answered with the
\* no-text message.
C5_Witness ==
    /\ response # NoReply
    /\ response.kind = "pdf"
    /\ response.detail = NoTextDetail
    /\ \E i \in 1..Len(response.file.bytes.pages) :
           response.file.bytes.pages[i] = BlankPage

PdfStages ==
    <<"read_upload", "extract_text", "field_extraction_call", "analysis_call",
      "record">>

\* C6: a request of POST /api/v1/analyze-pdf that ends with 200 ran read,
\* text extraction, field extraction, analysis, record in that order; the key
\* it read the history of and the key it recorded under are the session_id the
\* field extraction produced, and no other key of the map changed.
C6_Step ==
    \A h \in Handlers :
        (Finishes(h, "pdf") /\ response'.status_code = 200) =>
            LET sid == response'.extraction.obj.session_id
                new == Stored(SESSION_HISTORY', sid)
            IN  /\ response'.stages = PdfStages
                /\ response'.request.session_id = sid
                /\ response'.history_key = sid
                /\ sid \in DOMAIN SESSION_HISTORY'
                /\ new[Len(new)] = model_dump(response'.result)
                /\ recorded'[sid] = Append(recorded[sid], model_dump(response'.result))
                /\ \A k \in (DOMAIN SESSION_HISTORY \cup DOMAIN SESSION_HISTORY') \ {sid} :
                       /\ k \in DOMAIN SESSION_HISTORY
                       /\ k \in DOMAIN SESSION_HISTORY'
                       /\ SESSION_HISTORY'[k] = SESSION_HISTORY[k]

C6_PdfOrderAndKey == [][C6_Step]_vars

\* C6 witness: a PDF request returned 200 while the other session has a
\* history of its own.
C6_Witness ==
    /\ response # NoReply
    /\ response.kind = "pdf"
    /\ response.status_code = 200
    /\ \E k \in DOMAIN SESSION_HISTORY : k # response.request.session_id

\* C7: when rag_corpus.txt is missing the context is the fallback string, the
\* request goes on to the analysis call, a conforming LLM answer gives 200 and
\* is recorded, and the only error such a request can end with is the LLM's.
C7_MissingFileIsNoError ==
    /\ \A h \in Handlers :
           (task[h].pc = "analyze" /\ task[h].fs = "missing") =>
               /\ task[h].rag_context = RagFallback
               /\ "analysis_call" \in Range(task[h].stages)
    /\ (response # NoReply /\ "fs" \in DOMAIN response /\ response.fs = "missing") =>
           /\ {"rag_context", "llm"} \subseteq DOMAIN response
           /\ response.rag_context = RagFallback
           /\ "analysis_call" \in Range(response.stages)
           /\ Conforming(response.llm) =>
                  /\ response.status_code = 200
                  /\ "record" \in Range(response.stages)
                  /\ LET log == recorded[response.request.session_id]
                     IN  /\ log # <<>>
                         /\ log[Len(log)] = response.llm.obj
           /\ response.status_code # 200 =>
                  /\ ~Conforming(response.llm)
                  /\ response.status_code = 500
                  /\ response.detail = AnalysisFailedDetail

\* C7 witness: a request that found no reference file returned 200.
C7_Witness ==
    /\ response # NoReply
    /\ "fs" \in DOMAIN response
    /\ response.fs = "missing"
    /\ response.status_code = 200

\* The request got past the upload checks and pypdf raised on its bytes.
PdfParseException(r) ==
    /\ r # NoReply
    /\ r.kind = "pdf"
    /\ ~Rejected(r.file)
    /\ ~Parses(r.file.bytes)

\* The request ended because an LLM call raised or its output failed the schema.
LLMFailed(r) ==
    /\ r # NoReply
    /\ \/ /\ "extraction" \in DOMAIN r
          /\ extract_request_from_pdf_text_return(r.extraction).raised
       \/ /\ "llm" \in DOMAIN r
          /\ ~Conforming(r.llm)

\* C8 as claimed: a PDF parse exception is answered with a server error, the
\* class of the LLM failures.
C8_ParseExceptionIsServerError ==
    PdfParseException(response) => response.status_code >= 500

\* C8 amended: a PDF parse exception is answered with the client error 400
\* "Could not read PDF content.", while an LLM call exception or an LLM output
\* that fails the schema is answered with a server error 500; neither answer
\* carries more than its fixed message.
C8_ParseExceptionIsClientError ==
    /\ PdfParseException(response) =>
           /\ response.status_code = 400
           /\ response.detail = CouldNotReadDetail
    /\ LLMFailed(response) =>
           /\ response.status_code = 500
           /\ response.detail \in {ExtractionFailedDetail, AnalysisFailedDetail}

\* C8 witness: pypdf could not read the bytes and the request was answered.
C8_Witness ==
    /\ PdfParseException(response)
    /\ response.file.bytes = GarbledBytes

\* C9: under every interleaving, the history of a session is the last at most
\* 5 of the results returned to that session's requests, as whole dumps, in
\* the order the requests returned; a request that returns 200 has its own
\* result as the window's last entry.
C9_NoLostAppend ==
    /\ \A s \in Sessions :
           LET dumps == [i \in 1..Len(completed[s]) |-> model_dump(completed[s][i])]
           IN  Stored(SESSION_HISTORY, s) = LastN(dumps, HistoryLimit)
    /\ (response # NoReply /\ response.status_code = 200) =>
           LET stored == Stored(SESSION_HISTORY, response.request.session_id)
               done == completed[response.request.session_id]
           IN  /\ stored # <<>>
               /\ stored[Len(stored)] = model_dump(response.result)
               /\ done # <<>>
               /\ done[Len(done)] = response.result

\* C9 witness: a request that read a full-but-one window returned 200 after
\* another request of the session had appended, and the window overflowed:
\* the two requests overlapped on the same history.
C9_Witness ==
    /\ response # NoReply
    /\ response.status_code = 200
    /\ response.session_history.found
    /\ Len(response.session_history.list) = HistoryLimit - 1
    /\ Len(completed[response.request.session_id]) > HistoryLimit

\* The history of a session as a reader sees it.
View(H, s) == SESSION_HISTORY_get(H, s)

\* C10: a step changes the history of session s only when it ends a request
\* that carries session_id s, and every entry stored under s is the dump of a
\* result returned to a request that carried s.
C10_Step ==
    /\ \A s \in Sessions :
           View(SESSION_HISTORY', s) # View(SESSION_HISTORY, s) =>
               \E h \in Handlers :
                   /\ task[h].pc = "analyze"
                   /\ task'[h].pc = "idle"
                   /\ task[h].request.session_id = s
    /\ \A s \in DOMAIN SESSION_HISTORY' :
           \A i \in 1..Len(SESSION_HISTORY'[s]) :
               \E j \in 1..Len(completed'[s]) :
                   SESSION_HISTORY'[s][i] = model_dump(completed'[s][j])

C10_SessionsIsolated == [][C10_Step]_vars

\* C10 witness: both sessions have a history, the two differ, and a request
\* has just recorded.
C10_Witness ==
    /\ DOMAIN SESSION_HISTORY = Sessions
    /\ \A s \in Sessions, t \in Sessions :
           s # t => SESSION_HISTORY[s] # SESSION_HISTORY[t]
    /\ response # NoReply
    /\ response.status_code = 200

====
